---- MODULE Spec2Model ----
(***************************************************************************)
(* R2PD nearest-node matching (src/R2PD/nearestnodes.py).                  *)
(*                                                                         *)
(* nearest_power_nodes: capacity constrained nearest-neighbour allocation  *)
(* of resource sites to requested nodes; nearest_met_nodes: single shot    *)
(* nearest-neighbour lookup for weather nodes.                             *)
(*                                                                         *)
(* Conventions of the model                                                *)
(*  - capacities are integers; a fraction cap / capacity is kept as the    *)
(*    exact rational [num, den] the division is applied to;                *)
(*  - cKDTree compares Euclidean distances; the model keeps the squared    *)
(*    distance, which orders points the same way;                          *)
(*  - positions (pos, idxmin rows) are 0-based as in numpy / pandas, TLA+  *)
(*    sequences are 1-based, so r_index[i] of the code is r_index[i + 1];  *)
(*  - the node table is indexed by the node identifiers 1..N;              *)
(*  - a NaN site_id / site_fracs cell of the power table is the empty      *)
(*    sequence (the code never stores an empty list).                      *)
(***************************************************************************)
EXTENDS Integers, Sequences, FiniteSets, TLC

\* ------------------------------------------------------------------ bounds
MaxNodes == 2
MaxResources == 2

\* Input rows the tables are drawn from (a table may repeat a row).
NodeRow(la, lo, c) == [latitude |-> la, longitude |-> lo, capacity |-> c]
PowerNodeRows ==
    {NodeRow(0, 1, 8), NodeRow(1, 0, 4), NodeRow(0, 3, 4), NodeRow(0, 7, 4)}
PowerResourceRows ==
    {NodeRow(0, 0, 10), NodeRow(10, 10, 5), NodeRow(0, 0, 3)}

\* Two index schemes of the resource table: the default RangeIndex 0..n-1
\* and labels that differ from the row positions.
RangeIndex(n) == [k \in 1..n |-> k - 1]
LabelIndex(n) == [k \in 1..n |-> 100 + k]
SiteIndexes(n) == {RangeIndex(n), LabelIndex(n)}

VARIABLES
    call,           \* which entry point runs: "power" or "met"
    node_data,      \* requested nodes (input table), indexed 1..N
    resource_meta,  \* resource sites (input table), in row order
    nodes,          \* working / result table of the requested nodes
    r_nodes,        \* working copy of the resources with r_cap
    r_left,         \* rows of r_nodes with r_cap > 0 at the head of this pass
    r_index,        \* r_left.index: their site ids
    nodes_left,     \* rows of nodes with r_cap > 0 at the head of this pass
    n_index,        \* nodes_left.index: their node ids
    pos,            \* tree.query: position of the nearest resource per node left
    dist,           \* tree.query: distance to it per node left
    node_pairs,     \* groupby('pos')['dist'].idxmin(): sequence of <<i, n>>
    k,              \* number of pairs of node_pairs the for loop has applied
    pass,           \* number of iterations of the while loop started
    pc,             \* "start" (head of a pass / of the call), "apply", "done", "error"
    error           \* name of the exception raised, "" if none

vars == <<call, node_data, resource_meta, nodes, r_nodes, r_left, r_index,
          nodes_left, n_index, pos, dist, node_pairs, k, pass, pc, error>>

\* NaN of a cell that was never written (weather table's site_id).
NaN == 0 - 1

\* ------------------------------------------------------------ pure helpers
Dist2(a, b) ==
    (a.latitude - b.latitude) * (a.latitude - b.latitude)
    + (a.longitude - b.longitude) * (a.longitude - b.longitude)

\* Mutant: the query answers with the farthest rows.
Nearest_Farthest(p, tbl) ==
    {i \in 0..(Len(tbl) - 1) :
        \A j \in 0..(Len(tbl) - 1) : Dist2(p, tbl[i + 1]) >= Dist2(p, tbl[j + 1])}

\* 0-based positions of the rows of tbl nearest to point p (cKDTree.query
\* with k = 1 returns one of them; which one on a tie is not defined).
Nearest(p, tbl) ==
    {i \in 0..(Len(tbl) - 1) :
        \A j \in 0..(Len(tbl) - 1) : Dist2(p, tbl[i + 1]) <= Dist2(p, tbl[j + 1])}

\* Rows of a table that satisfy a filter, in table order (boolean indexing).
RECURSIVE SelectRows(_, _)
SelectRows(tbl, keep) ==
    IF tbl = <<>> THEN <<>>
    ELSE IF keep[1] THEN <<Head(tbl)>> \o SelectRows(Tail(tbl), Tail(keep))
         ELSE SelectRows(Tail(tbl), Tail(keep))

\* Ascending sequence of a finite set of integers (groupby sorts its keys).
RECURSIVE SortedSeq(_)
SortedSeq(S) ==
    IF S = {} THEN <<>>
    ELSE LET m == CHOOSE x \in S : \A y \in S : x <= y
         IN <<m>> \o SortedSeq(S \ {m})

\* Mutant: the farthest nominator of the group is picked (idxmax).
IdxMin_Farthest(ps, ds, i) ==
    LET rows == {n \in 0..(Len(ps) - 1) : ps[n + 1] = i}
    IN CHOOSE n \in rows :
          \A m \in rows : ds[n + 1] > ds[m + 1] \/ (ds[n + 1] = ds[m + 1] /\ n <= m)

\* Mutant: on a tie of distances the last row of the group is picked.
IdxMin_LastOnTie(ps, ds, i) ==
    LET rows == {n \in 0..(Len(ps) - 1) : ps[n + 1] = i}
    IN CHOOSE n \in rows :
          \A m \in rows : ds[n + 1] < ds[m + 1] \/ (ds[n + 1] = ds[m + 1] /\ n >= m)

\* Series.idxmin of the rows of group i: first row with the least distance.
IdxMin(ps, ds, i) ==
    LET rows == {n \in 0..(Len(ps) - 1) : ps[n + 1] = i}
    IN CHOOSE n \in rows :
          \A m \in rows : ds[n + 1] < ds[m + 1] \/ (ds[n + 1] = ds[m + 1] /\ n <= m)

\* node_pairs.groupby('pos')['dist'].idxmin() as the sequence iteritems yields.
GroupByIdxMin(ps, ds) ==
    LET keys == SortedSeq({ps[j] : j \in DOMAIN ps})
    IN [j \in DOMAIN keys |-> <<keys[j], IdxMin(ps, ds, keys[j])>>]

\* Row of r_nodes with index label r_i (r_nodes.loc[r_i]).
Loc(tbl, r_i) == CHOOSE j \in DOMAIN tbl : tbl[j].site_id = r_i

Frac(a, b) == [num |-> a, den |-> b]

\* Mutant: the resource keeps its remaining capacity when the node is filled.
Apportion_KeepsCapacity(need, cap, capacity) ==
    IF need > cap
    THEN [frac |-> Frac(cap, capacity), resource_r_cap |-> 0, node_r_cap |-> need - cap]
    ELSE [frac |-> Frac(need, capacity), resource_r_cap |-> cap, node_r_cap |-> 0]

\* Mutant: the fraction is taken of the remaining, not the total, capacity.
Apportion_FracOfRemaining(need, cap, capacity) ==
    IF need > cap
    THEN [frac |-> Frac(cap, cap), resource_r_cap |-> 0, node_r_cap |-> need - cap]
    ELSE [frac |-> Frac(need, cap), resource_r_cap |-> cap - need, node_r_cap |-> 0]

\* Mutant: a node that exhausts a resource keeps its whole remaining demand.
Apportion_NodeKeepsNeed(need, cap, capacity) ==
    IF need > cap
    THEN [frac |-> Frac(cap, capacity), resource_r_cap |-> 0, node_r_cap |-> need]
    ELSE [frac |-> Frac(need, capacity), resource_r_cap |-> cap - need, node_r_cap |-> 0]

\* Mutant: the comparison is inverted.
Apportion_Inverted(need, cap, capacity) ==
    IF need < cap
    THEN [frac |-> Frac(cap, capacity), resource_r_cap |-> 0, node_r_cap |-> need - cap]
    ELSE [frac |-> Frac(need, capacity), resource_r_cap |-> cap - need, node_r_cap |-> 0]

\* Mutant: the capacity taken is added to the node's remaining demand.
Apportion_SignSlip(need, cap, capacity) ==
    IF need > cap
    THEN [frac |-> Frac(cap, capacity), resource_r_cap |-> 0, node_r_cap |-> need + cap]
    ELSE [frac |-> Frac(need, capacity), resource_r_cap |-> cap - need, node_r_cap |-> 0]

\* Fraction of the resource applied to the node and the two remainders.
Apportion(need, cap, capacity) ==
    IF need > cap
    THEN [frac |-> Frac(cap, capacity), resource_r_cap |-> 0, node_r_cap |-> need - cap]
    ELSE [frac |-> Frac(need, capacity), resource_r_cap |-> cap - need, node_r_cap |-> 0]

\* Mutant: a later assignment is put in front of the lists.
AddSite_Prepend(node, file_id, frac) ==
    IF node.site_id = <<>>
    THEN [node EXCEPT !.site_id = <<file_id>>, !.site_fracs = <<frac>>]
    ELSE [node EXCEPT !.site_id = <<file_id>> \o node.site_id,
                      !.site_fracs = <<frac>> \o node.site_fracs]

\* First assignment creates the lists, later ones append.
AddSite(node, file_id, frac) ==
    IF node.site_id = <<>>
    THEN [node EXCEPT !.site_id = <<file_id>>, !.site_fracs = <<frac>>]
    ELSE [node EXCEPT !.site_id = node.site_id \o <<file_id>>,
                      !.site_fracs = node.site_fracs \o <<frac>>]

\* ------------------------------------------------------------------ inputs
\* Weather rows carry no capacity: [latitude, longitude].
Point(row) == [latitude |-> row.latitude, longitude |-> row.longitude]
MetNodeRows == {Point(r) : r \in PowerNodeRows}
MetResourceRows == {Point(r) : r \in PowerResourceRows}

\* Requested nodes [node_id(index), ...columns of rows], node ids 1..n.
NodeTables(rows) == UNION {[1..n -> rows] : n \in 1..MaxNodes}

\* Resource meta-data [site_id(index), ...columns of rows].
WithIndex(idx, tbl) ==
    [j \in DOMAIN tbl |-> [c \in {"site_id"} \cup DOMAIN tbl[j] |->
                              IF c = "site_id" THEN idx[j] ELSE tbl[j][c]]]

\* Tables of up to MaxResources different rows, in every order: sites may
\* share a place (a tie for the query) but then differ in capacity.
DistinctRows(tbl) == \A a, b \in DOMAIN tbl : tbl[a] = tbl[b] => a = b

ResourceTables(rows) ==
    UNION {{WithIndex(idx, tbl) :
               idx \in SiteIndexes(n), tbl \in {t \in [1..n -> rows] : DistinctRows(t)}} :
           n \in 0..MaxResources}

\* ------------------------------------------------------------ construction
\* nodes / r_nodes as nearest_power_nodes builds them before its loop.
PowerNodes(nd) ==
    [j \in DOMAIN nd |->
        [latitude |-> nd[j].latitude, longitude |-> nd[j].longitude,
         capacity |-> nd[j].capacity, site_id |-> <<>>, site_fracs |-> <<>>,
         r_cap |-> nd[j].capacity]]

PowerResources(rm) ==
    [j \in DOMAIN rm |->
        [site_id |-> rm[j].site_id, longitude |-> rm[j].longitude,
         latitude |-> rm[j].latitude, capacity |-> rm[j].capacity,
         r_cap |-> rm[j].capacity]]

\* nodes as nearest_met_nodes builds it before the query.
MetNodes(nd) ==
    [j \in DOMAIN nd |->
        [latitude |-> nd[j].latitude, longitude |-> nd[j].longitude,
         site_id |-> NaN]]

InitPower ==
    /\ call = "power"
    /\ node_data \in NodeTables(PowerNodeRows)
    /\ resource_meta \in ResourceTables(PowerResourceRows)
    /\ nodes = PowerNodes(node_data)
    /\ r_nodes = PowerResources(resource_meta)

InitMet ==
    /\ call = "met"
    /\ node_data \in NodeTables(MetNodeRows)
    /\ resource_meta \in ResourceTables(MetResourceRows)
    /\ nodes = MetNodes(node_data)
    /\ r_nodes = <<>>

Init ==
    /\ (InitPower \/ InitMet)
    /\ r_left = <<>>
    /\ r_index = <<>>
    /\ nodes_left = <<>>
    /\ n_index = <<>>
    /\ pos = <<>>
    /\ dist = <<>>
    /\ node_pairs = <<>>
    /\ k = 0
    /\ pass = 0
    /\ pc = "start"
    /\ error = ""

\* ------------------------------------------------- nearest_power_nodes loop
\* Distance cKDTree.query reports for a missing neighbour (numpy inf).
Inf == 1000000

\* Mutant: filled nodes are queried again.
NodesLeft_NoFilter(ns) == [j \in DOMAIN ns |-> j]

\* Node ids of the nodes with r_cap > 0, in table order.
NodesLeft(ns) ==
    SelectRows([j \in DOMAIN ns |-> j], [j \in DOMAIN ns |-> ns[j].r_cap > 0])

\* Mutant: the tree is built over all resources, exhausted ones included.
ResourcesLeft_NoFilter(rs) == rs

\* Resources with r_cap > 0, in table order.
ResourcesLeft(rs) == SelectRows(rs, [j \in DOMAIN rs |-> rs[j].r_cap > 0])

\* Possible results pos of tree.query(node_lat_lon, k=1) on a non-empty tree.
QueryResults(tree, queries) ==
    {ps \in [DOMAIN queries -> 0..(Len(tree) - 1)] :
        \A j \in DOMAIN queries : ps[j] \in Nearest(queries[j], tree)}

\* Head of one pass: filter both tables, build the tree, query it, group.
Query ==
    /\ call = "power"
    /\ pc = "start"
    /\ r_left' = ResourcesLeft(r_nodes)
    /\ r_index' = [j \in DOMAIN r_left' |-> r_left'[j].site_id]
    /\ n_index' = NodesLeft(nodes)
    /\ nodes_left' = [j \in DOMAIN n_index' |-> nodes[n_index'[j]]]
    /\ pass' = pass + 1
    /\ k' = 0
    /\ IF r_left' # <<>>
       THEN /\ pos' \in QueryResults(r_left', nodes_left')
            /\ dist' = [j \in DOMAIN nodes_left' |->
                           Dist2(nodes_left'[j], r_left'[pos'[j] + 1])]
            /\ node_pairs' = GroupByIdxMin(pos', dist')
            /\ pc' = "apply"
            /\ error' = ""
       ELSE \* cKDTree over no points: the build either refuses the empty
            \* array or answers every query with (inf, n = 0).
            \/ /\ pos' = <<>>
               /\ dist' = <<>>
               /\ node_pairs' = <<>>
               /\ pc' = "error"
               /\ error' = "ValueError"
            \/ /\ pos' = [j \in DOMAIN nodes_left' |-> 0]
               /\ dist' = [j \in DOMAIN nodes_left' |-> Inf]
               /\ node_pairs' = GroupByIdxMin(pos', dist')
               /\ pc' = "apply"
               /\ error' = ""
    /\ UNCHANGED <<call, node_data, resource_meta, nodes, r_nodes>>

\* One iteration of "for i, n in node_pairs.iteritems()".
Apply ==
    /\ call = "power"
    /\ pc = "apply"
    /\ k < Len(node_pairs)
    /\ LET i == node_pairs[k + 1][1]
           n == node_pairs[k + 1][2]
       IN IF i >= Len(r_index)
          THEN \* r_index[i] on an index with no such position
               /\ pc' = "error"
               /\ error' = "IndexError"
               /\ UNCHANGED <<nodes, r_nodes, k>>
          ELSE LET r_i == r_index[i + 1]
                   n_i == n_index[n + 1]
                   row == Loc(r_nodes, r_i)
                   resource == r_nodes[row]
                   file_id == resource.site_id
                   node == nodes[n_i]
                   a == Apportion(node.r_cap, resource.r_cap, resource.capacity)
               IN /\ r_nodes' = [r_nodes EXCEPT ![row].r_cap = a.resource_r_cap]
                  /\ nodes' = [nodes EXCEPT ![n_i] =
                                  AddSite([node EXCEPT !.r_cap = a.node_r_cap],
                                          file_id, a.frac)]
                  /\ k' = k + 1
                  /\ UNCHANGED <<pc, error>>
    /\ UNCHANGED <<call, node_data, resource_meta, r_left, r_index, nodes_left,
                   n_index, pos, dist, node_pairs, pass>>

\* Mutant: the loop never looks at the nodes' remaining demand and always
\* starts another pass.
Check_Late ==
    /\ call = "power"
    /\ pc = "apply"
    /\ k = Len(node_pairs)
    /\ pc' = "start"
    /\ UNCHANGED <<call, node_data, resource_meta, nodes, r_nodes, r_left,
                   r_index, nodes_left, n_index, pos, dist, node_pairs, k, pass,
                   error>>

\* End of the pass: leave the loop when no node has r_cap > 0.
Check ==
    /\ call = "power"
    /\ pc = "apply"
    /\ k = Len(node_pairs)
    /\ pc' = IF \A j \in DOMAIN nodes : ~(nodes[j].r_cap > 0) THEN "done" ELSE "start"
    /\ UNCHANGED <<call, node_data, resource_meta, nodes, r_nodes, r_left,
                   r_index, nodes_left, n_index, pos, dist, node_pairs, k, pass,
                   error>>

\* ------------------------------------------------------- nearest_met_nodes
Met ==
    /\ call = "met"
    /\ pc = "start"
    /\ IF resource_meta # <<>>
       THEN /\ pos' \in QueryResults(resource_meta, nodes)
            /\ nodes' = [j \in DOMAIN nodes |-> [nodes[j] EXCEPT !.site_id = pos'[j]]]
            /\ pc' = "done"
            /\ error' = ""
       ELSE \* cKDTree over no points: every query is answered with
            \* (inf, n = 0), or the build refuses the empty array.
            \/ /\ pos' = [j \in DOMAIN nodes |-> 0]
               /\ nodes' = [j \in DOMAIN nodes |-> [nodes[j] EXCEPT !.site_id = 0]]
               /\ pc' = "done"
               /\ error' = ""
            \/ /\ pos' = <<>>
               /\ nodes' = nodes
               /\ pc' = "error"
               /\ error' = "ValueError"
    /\ UNCHANGED <<call, node_data, resource_meta, r_nodes, r_left, r_index,
                   nodes_left, n_index, dist, node_pairs, k, pass>>

Next == Query \/ Apply \/ Check \/ Met

Spec == Init /\ [][Next]_vars

\* The loop is sequential code: a step that can be taken is taken.
FairSpec == Spec /\ WF_vars(Next)

\* ------------------------------------------------------- claim vocabulary
\* Exact rationals [num, den], den > 0.
RatAdd(a, b) == [num |-> a.num * b.den + b.num * a.den, den |-> a.den * b.den]
RatEq(a, b) == a.num * b.den = b.num * a.den
RatLeq(a, b) == a.num * b.den <= b.num * a.den
Int2Rat(x) == [num |-> x, den |-> 1]

RECURSIVE RatSum(_)
RatSum(fs) == IF fs = <<>> THEN Int2Rat(0) ELSE RatAdd(Head(fs), RatSum(Tail(fs)))

RECURSIVE Concat(_)
Concat(ss) == IF ss = <<>> THEN <<>> ELSE Head(ss) \o Concat(Tail(ss))

RECURSIVE SumSeq(_)
SumSeq(xs) == IF xs = <<>> THEN 0 ELSE Head(xs) + SumSeq(Tail(xs))

\* Assignments of one node as a sequence of [site, frac].
Assignments(node) ==
    [e \in DOMAIN node.site_id |-> [site |-> node.site_id[e], frac |-> node.site_fracs[e]]]

\* frac * capacity for every assignment of any node to the resource site.
DrawsFrom(site, capacity) ==
    LET all == Concat([j \in DOMAIN nodes |-> Assignments(nodes[j])])
        hit == SelectRows(all, [e \in DOMAIN all |-> all[e].site = site])
    IN [e \in DOMAIN hit |-> [num |-> hit[e].frac.num * capacity, den |-> hit[e].frac.den]]

\* frac * (matched resource's total capacity) for every assignment of a node.
DrawsOf(node) ==
    [e \in DOMAIN node.site_id |->
        [num |-> node.site_fracs[e].num * r_nodes[Loc(r_nodes, node.site_id[e])].capacity,
         den |-> node.site_fracs[e].den]]

TotalCapacity == SumSeq([j \in DOMAIN resource_meta |-> resource_meta[j].capacity])
TotalDemand == SumSeq([j \in DOMAIN node_data |-> node_data[j].capacity])

\* C1 (Conservation): in every state of nearest_power_nodes, for every
\* resource the capacity drawn from it by all nodes (fraction x total
\* capacity, summed) is at most its total capacity and equals total capacity
\* minus remaining capacity, and the remaining capacity is never negative.
C1_Conservation ==
    call = "power" =>
        \A j \in DOMAIN r_nodes :
            LET drawn == RatSum(DrawsFrom(r_nodes[j].site_id, r_nodes[j].capacity))
            IN /\ RatLeq(drawn, Int2Rat(r_nodes[j].capacity))
               /\ RatEq(drawn, Int2Rat(r_nodes[j].capacity - r_nodes[j].r_cap))
               /\ r_nodes[j].r_cap >= 0

\* A resource two different nodes have drawn from, with capacity to spare,
\* in the middle of a pass.
C1_Witness ==
    /\ call = "power"
    /\ pc = "apply"
    /\ k >= 1
    /\ \E j \in DOMAIN r_nodes :
          /\ r_nodes[j].r_cap > 0
          /\ Cardinality({n \in DOMAIN nodes :
                 \E e \in DOMAIN nodes[n].site_id :
                     nodes[n].site_id[e] = r_nodes[j].site_id}) >= 2

\* C2 (Node accounting): in every state of nearest_power_nodes, for every
\* node, original demand = remaining demand + sum over its assignments of
\* fraction x the matched resource's total capacity; so a node at remaining
\* demand 0 has drawn exactly its demand, also in the returned table.
C2_NodeAccounting ==
    call = "power" =>
        \A n \in DOMAIN nodes :
            /\ nodes[n].capacity = node_data[n].capacity
            /\ RatEq(RatAdd(Int2Rat(nodes[n].r_cap), RatSum(DrawsOf(nodes[n]))),
                     Int2Rat(node_data[n].capacity))

\* The call has returned and some node was filled from two resources.
C2_Witness ==
    /\ call = "power"
    /\ pc = "done"
    /\ \E n \in DOMAIN nodes : Len(nodes[n].site_id) >= 2 /\ nodes[n].r_cap = 0

\* Total resource capacity covers total node demand (inputs are positive).
Feasible == call = "power" /\ TotalCapacity >= TotalDemand

AllFilled == call = "power" /\ \A n \in DOMAIN nodes : nodes[n].r_cap = 0

\* C3 (Completion): for every input with positive demands and capacities
\* whose total capacity is at least the total demand, nearest_power_nodes
\* never raises, eventually returns, and when it has returned every node's
\* remaining demand is exactly 0.
C3_Completion ==
    /\ [](Feasible => pc # "error")
    /\ [](Feasible /\ pc = "done" => AllFilled)
    /\ (Feasible ~> (pc = "done" /\ AllFilled))

\* A feasible call that needed more than one pass has returned.
C3_Witness == Feasible /\ pc = "done" /\ pass >= 2 /\ AllFilled

\* Total resource capacity is short of total node demand.
Infeasible == call = "power" /\ TotalCapacity < TotalDemand

\* C4 (Infeasibility): whenever total resource capacity < total node demand
\* the call returns no result table and the failure it ends with is
\* CapacityExhaustedError (carrying the nodes still unmet).
C4_Infeasibility ==
    Infeasible => /\ pc # "done"
                  /\ (pc = "error" => error = "CapacityExhaustedError")

\* The pass whose query results the state holds has applied all its pairs.
PassEnded ==
    /\ pass >= 1
    /\ \/ pc = "apply" /\ k = Len(node_pairs)
       \/ pc \in {"start", "done"}

\* Rows of nodes_left (0-based) that nominated resource position i.
Nominators(i) == {m \in 0..(Len(pos) - 1) : pos[m + 1] = i}

\* Nominators of i whose row of nodes differs from its row at the pass head.
Drew(i) == {m \in Nominators(i) : nodes[n_index[m + 1]] # nodes_left[m + 1]}

\* Inputs of the two-node, one-resource case: one resource that covers both
\* demands, node near strictly closer to it than node far.
TwoNodesOneResource(near, far) ==
    /\ call = "power"
    /\ Len(resource_meta) = 1
    /\ DOMAIN node_data = {near, far}
    /\ near # far
    /\ Dist2(node_data[near], resource_meta[1]) < Dist2(node_data[far], resource_meta[1])
    /\ resource_meta[1].capacity >= node_data[near].capacity + node_data[far].capacity

\* C5 (Conflict resolution): in every pass, for each resource nominated by
\* one or more remaining nodes, at most one nominator has drawn from it at
\* any point of the pass and exactly one once the pass has ended; that node
\* is at minimal distance among the nominators and gained exactly that
\* resource; every other nominator's row is as it was at the head of the
\* pass and still has demand, so it is looked at again in the next pass.
\* With two nodes at different distances from one resource large enough for
\* both, the nearer is filled in pass 1 and the farther in pass 2.
C5_ConflictResolution ==
    /\ (call = "power" /\ pass >= 1 /\ r_left # <<>> /\ pc # "error") =>
          \A i \in {pos[j] : j \in DOMAIN pos} :
              /\ Cardinality(Drew(i)) <= 1
              /\ PassEnded => Cardinality(Drew(i)) = 1
              /\ \A m \in Drew(i) :
                    /\ \A o \in Nominators(i) : dist[m + 1] <= dist[o + 1]
                    /\ nodes[n_index[m + 1]].site_id =
                          nodes_left[m + 1].site_id \o <<r_index[i + 1]>>
              /\ \A o \in Nominators(i) \ Drew(i) :
                    /\ nodes[n_index[o + 1]].r_cap = nodes_left[o + 1].r_cap
                    /\ nodes[n_index[o + 1]].site_id = nodes_left[o + 1].site_id
                    /\ nodes[n_index[o + 1]].site_fracs = nodes_left[o + 1].site_fracs
                    /\ PassEnded => nodes[n_index[o + 1]].r_cap > 0 /\ pc # "done"
    /\ \A near, far \in DOMAIN node_data :
          TwoNodesOneResource(near, far) =>
              /\ (pass = 1 /\ PassEnded) =>
                    /\ nodes[near].r_cap = 0
                    /\ nodes[near].site_id = <<resource_meta[1].site_id>>
                    /\ nodes[far].r_cap = node_data[far].capacity
                    /\ nodes[far].site_id = <<>>
              /\ (pass = 2 /\ PassEnded) =>
                    /\ nodes[far].r_cap = 0
                    /\ nodes[far].site_id = <<resource_meta[1].site_id>>
              /\ pass <= 2
              /\ pc = "done" => pass = 2

\* Nodes at distances 3 and 7 from the only resource, the farther one first
\* in the table: both are filled after the second pass.
C5_Witness ==
    /\ TwoNodesOneResource(2, 1)
    /\ Dist2(node_data[2], resource_meta[1]) = 3 * 3
    /\ Dist2(node_data[1], resource_meta[1]) = 7 * 7
    /\ pc = "done"
    /\ pass = 2
    /\ Drew(0) = {0}

\* Some row of tbl is strictly nearer to point p than every other row.
UniqueNearest(p, tbl) ==
    \E i \in DOMAIN tbl : \A j \in DOMAIN tbl \ {i} : Dist2(p, tbl[i]) < Dist2(p, tbl[j])

\* C6 (Weather nearest match): after nearest_met_nodes on a non-empty
\* resource table, every node whose nearest resource is unique is assigned
\* the resource (row) strictly nearer to it than every other resource; the
\* whole table is matched in one step and nodes may share a resource.
C6_WeatherNearest ==
    (call = "met" /\ pc = "done" /\ resource_meta # <<>>) =>
        /\ pass = 0
        /\ \A j \in DOMAIN nodes :
              /\ nodes[j].latitude = node_data[j].latitude
              /\ nodes[j].longitude = node_data[j].longitude
              /\ nodes[j].site_id \in 0..(Len(resource_meta) - 1)
              /\ UniqueNearest(node_data[j], resource_meta) =>
                    \A q \in DOMAIN resource_meta \ {nodes[j].site_id + 1} :
                        Dist2(node_data[j], resource_meta[nodes[j].site_id + 1])
                            < Dist2(node_data[j], resource_meta[q])

\* Two nodes were matched to the same resource, the second row of a table
\* of two resources at different places.
C6_Witness ==
    /\ call = "met"
    /\ pc = "done"
    /\ Len(resource_meta) = 2
    /\ Len(node_data) = 2
    /\ \A j \in DOMAIN nodes :
          /\ UniqueNearest(node_data[j], resource_meta)
          /\ nodes[j].site_id = 1

\* C7 (Weather result holds identifiers): the site_id nearest_met_nodes
\* writes for a node is the index key of the matched resource, whatever the
\* resource table's index, as the site_id entries of the power result are.
C7_SiteIdIsIdentifier ==
    /\ (call = "met" /\ pc = "done" /\ resource_meta # <<>>) =>
          \A j \in DOMAIN nodes : nodes[j].site_id = resource_meta[pos[j] + 1].site_id
    /\ call = "power" =>
          \A j \in DOMAIN nodes : \A e \in DOMAIN nodes[j].site_id :
              \E r \in DOMAIN resource_meta : nodes[j].site_id[e] = resource_meta[r].site_id

\* The example of the design: R1 (0,0) capacity 10, R2 (10,10) capacity 5,
\* N1 (0,1) demand 8 first in the node table, N2 (1,0) demand 4.
ExampleInput ==
    /\ call = "power"
    /\ node_data = <<NodeRow(0, 1, 8), NodeRow(1, 0, 4)>>
    /\ Len(resource_meta) = 2
    /\ [c \in {"latitude", "longitude", "capacity"} |-> resource_meta[1][c]] = NodeRow(0, 0, 10)
    /\ [c \in {"latitude", "longitude", "capacity"} |-> resource_meta[2][c]] = NodeRow(10, 10, 5)

\* C8 (Example scenario): on the example input the allocation does not fail,
\* returns after exactly three passes, each of which applied a pair, with
\* N1 -> [R1 : 0.8], N2 -> [R1 : 0.2, R2 : 0.4], R1 left with 0 and R2 with 3.
C8_Example ==
    ExampleInput =>
        /\ pc # "error"
        /\ pass <= 3
        /\ (pass >= 1 /\ pc # "start") => Len(node_pairs) >= 1
        /\ pc = "done" =>
              /\ pass = 3
              /\ nodes[1].site_id = <<resource_meta[1].site_id>>
              /\ Len(nodes[1].site_fracs) = 1
              /\ RatEq(nodes[1].site_fracs[1], Frac(8, 10))
              /\ nodes[2].site_id = <<resource_meta[1].site_id, resource_meta[2].site_id>>
              /\ Len(nodes[2].site_fracs) = 2
              /\ RatEq(nodes[2].site_fracs[1], Frac(2, 10))
              /\ RatEq(nodes[2].site_fracs[2], Frac(4, 10))
              /\ r_nodes[1].r_cap = 0
              /\ r_nodes[2].r_cap = 3

\* The example has run to its end, with the resources labelled (not 0, 1).
C8_Witness ==
    /\ ExampleInput
    /\ pc = "done"
    /\ resource_meta[1].site_id # 0
    /\ Len(nodes[2].site_id) = 2

\* site_id and site_fracs of every node have the same length and name
\* resources of the table.
Aligned ==
    \A n \in DOMAIN nodes :
        /\ Len(nodes[n].site_id) = Len(nodes[n].site_fracs)
        /\ \A e \in DOMAIN nodes[n].site_id :
              \E r \in DOMAIN r_nodes : r_nodes[r].site_id = nodes[n].site_id[e]

\* C9 (Aligned assignment lists): in every state of nearest_power_nodes the
\* two lists of a node have the same length; a step either leaves a node's
\* lists alone or appends one entry to each, the site_id of a resource and
\* the fraction (of its total capacity) that this step took from it; no
\* earlier entry is changed or removed.
C9_AlignedLists ==
    [][call = "power" =>
        /\ Aligned
        /\ Aligned'
        /\ \A n \in DOMAIN nodes :
              \/ /\ nodes'[n].site_id = nodes[n].site_id
                 /\ nodes'[n].site_fracs = nodes[n].site_fracs
              \/ \E r \in DOMAIN r_nodes :
                    /\ nodes'[n].site_id = nodes[n].site_id \o <<r_nodes[r].site_id>>
                    /\ Len(nodes'[n].site_fracs) = Len(nodes[n].site_fracs) + 1
                    /\ SubSeq(nodes'[n].site_fracs, 1, Len(nodes[n].site_fracs))
                          = nodes[n].site_fracs
                    /\ RatEq(nodes'[n].site_fracs[Len(nodes'[n].site_fracs)],
                             Frac(r_nodes[r].r_cap - r_nodes'[r].r_cap, r_nodes[r].capacity))
                    /\ r_nodes[r].r_cap - r_nodes'[r].r_cap
                          = nodes[n].r_cap - nodes'[n].r_cap]_vars

\* A node holds two assignments with different fractions, made in order.
C9_Witness ==
    /\ call = "power"
    /\ \E n \in DOMAIN nodes :
          /\ Len(nodes[n].site_id) = 2
          /\ nodes[n].site_id[1] # nodes[n].site_id[2]
          /\ ~RatEq(nodes[n].site_fracs[1], nodes[n].site_fracs[2])

\* C10 (Empty weather resources): nearest_met_nodes on an empty resource
\* table fails with EmptyIndexError and gives no node a site_id.
C10_EmptyWeatherResources ==
    (call = "met" /\ resource_meta = <<>> /\ pc # "start") =>
        /\ pc = "error"
        /\ error = "EmptyIndexError"
        /\ \A j \in DOMAIN nodes : nodes[j].site_id = NaN

\* ------------------------------------------- calls with non-positive entries
\* Rows a caller may pass although the allocation expects positive values:
\* a demand or a capacity of zero, and a negative one.
NonPositiveNodeRows == {NodeRow(0, 3, 0), NodeRow(1, 0, 0 - 4)}
NonPositiveResourceRows == {NodeRow(0, 0, 0), NodeRow(10, 10, 0 - 5)}

\* The table holds a demand <= 0 (nodes) or a capacity <= 0 (resources).
HasNonPositive(tbl) == \E j \in DOMAIN tbl : tbl[j].capacity <= 0

\* nearest_power_nodes called with at least one non-positive entry.
InitUnvalidated ==
    /\ call = "power"
    /\ node_data \in NodeTables(PowerNodeRows \cup NonPositiveNodeRows)
    /\ resource_meta \in ResourceTables(PowerResourceRows \cup NonPositiveResourceRows)
    /\ HasNonPositive(node_data) \/ HasNonPositive(resource_meta)
    /\ nodes = PowerNodes(node_data)
    /\ r_nodes = PowerResources(resource_meta)
    /\ r_left = <<>>
    /\ r_index = <<>>
    /\ nodes_left = <<>>
    /\ n_index = <<>>
    /\ pos = <<>>
    /\ dist = <<>>
    /\ node_pairs = <<>>
    /\ k = 0
    /\ pass = 0
    /\ pc = "start"
    /\ error = ""

NextPower == Query \/ Apply \/ Check

SpecUnvalidated == InitUnvalidated /\ [][NextPower]_vars

\* C11 (Input validation): a power allocation whose node table holds a
\* demand <= 0 or whose resource table holds a capacity <= 0 fails with
\* InvalidInputError before any pass runs and returns no result; the entry
\* is never skipped silently nor returned with an empty assignment.
C11_InputValidation ==
    (call = "power" /\ (HasNonPositive(node_data) \/ HasNonPositive(resource_meta))) =>
        /\ pass = 0
        /\ pc # "done"
        /\ pc = "error" => error = "InvalidInputError"

\* ------------------------------------------------------ apportionment step
\* The apportionment as the design words it: branch on need < cap.
DesignApportion(need, cap, capacity) ==
    IF need < cap
    THEN [frac |-> Frac(need, capacity), resource_r_cap |-> cap - need, node_r_cap |-> 0]
    ELSE [frac |-> Frac(cap, capacity), resource_r_cap |-> 0, node_r_cap |-> need - cap]

Min(a, b) == IF a < b THEN a ELSE b

\* The pair the for loop applies next: resource row of r_nodes and node id.
NextRow == Loc(r_nodes, r_index[node_pairs[k + 1][1] + 1])
NextNode == n_index[node_pairs[k + 1][2] + 1]

\* C12 (Apportionment step): for every pair the loop applies, with need the
\* node's remaining demand and cap the resource's remaining capacity, the
\* state after the step is the one the branch on need < cap prescribes, for
\* need < cap, need = cap and need > cap alike: min(need, cap) is drawn, the
\* fraction is that amount over the resource's total capacity; if need < cap
\* the node is left with 0 and the resource with cap - need, otherwise the
\* resource is left with 0 and the node with need - cap.
C12_Apportionment ==
    [][(call = "power" /\ pc = "apply" /\ k' = k + 1) =>
        LET need == nodes[NextNode].r_cap
            cap == r_nodes[NextRow].r_cap
            total == r_nodes[NextRow].capacity
            d == DesignApportion(need, cap, total)
            after == nodes'[NextNode]
            frac == after.site_fracs[Len(after.site_fracs)]
        IN /\ after.r_cap = d.node_r_cap
           /\ r_nodes'[NextRow].r_cap = d.resource_r_cap
           /\ RatEq(frac, d.frac)
           /\ RatEq(frac, Frac(Min(need, cap), total))
           /\ need - after.r_cap = Min(need, cap)
           /\ cap - r_nodes'[NextRow].r_cap = Min(need, cap)
           /\ need < cap => (after.r_cap = 0 /\ r_nodes'[NextRow].r_cap = cap - need)
           /\ need >= cap => (r_nodes'[NextRow].r_cap = 0 /\ after.r_cap = need - cap)]_vars

\* A pair was applied whose need equalled the resource's remaining capacity
\* at the head of the pass (each node and resource is in one pair per pass),
\* leaving both at 0.
C12_Witness ==
    /\ call = "power"
    /\ pc = "apply"
    /\ k >= 1
    /\ r_left # <<>>
    /\ nodes_left[node_pairs[k][2] + 1].r_cap = r_left[node_pairs[k][1] + 1].r_cap
    /\ nodes[n_index[node_pairs[k][2] + 1]].r_cap = 0
    /\ r_nodes[Loc(r_nodes, r_index[node_pairs[k][1] + 1])].r_cap = 0

\* ---------------------------------------------------------------- progress
\* Number of nodes and of resources that still have r_cap > 0.
Positive(tbl) == Cardinality({j \in DOMAIN tbl : tbl[j].r_cap > 0})

\* C13 (Pass bound): when total capacity covers total demand, a pass that
\* has applied its pairs has driven at least one resource's remaining
\* capacity or one node's remaining demand to 0 (fewer rows have r_cap > 0
\* than at the head of the pass), and the loop never starts more passes
\* than there are resources plus nodes.
C13_PassBound ==
    Feasible =>
        /\ pass <= Len(resource_meta) + Len(node_data)
        /\ PassEnded =>
              /\ Len(node_pairs) >= 1
              /\ Positive(nodes) + Positive(r_nodes) < Len(nodes_left) + Len(r_left)
              /\ \/ \E j \in DOMAIN nodes_left :
                        nodes_left[j].r_cap > 0 /\ nodes[n_index[j]].r_cap = 0
                 \/ \E j \in DOMAIN r_left :
                        r_left[j].r_cap > 0 /\ r_nodes[Loc(r_nodes, r_index[j])].r_cap = 0

\* A feasible call has returned after three passes.
C13_Witness == Feasible /\ pc = "done" /\ pass = 3

\* C14 (Monotone remaining state): before the first pass every node's
\* remaining demand is its full demand and every resource's remaining
\* capacity its total capacity; no step increases either or takes it below
\* 0; a returned call leaves every node at exactly 0 (a resource may keep a
\* remainder).
C14_Monotone ==
    [][call = "power" =>
        /\ pass = 0 =>
              /\ \A n \in DOMAIN nodes : nodes[n].r_cap = node_data[n].capacity
              /\ \A r \in DOMAIN r_nodes : r_nodes[r].r_cap = resource_meta[r].capacity
        /\ \A n \in DOMAIN nodes :
              /\ nodes'[n].r_cap <= nodes[n].r_cap
              /\ nodes'[n].r_cap >= 0
        /\ \A r \in DOMAIN r_nodes :
              /\ r_nodes'[r].r_cap <= r_nodes[r].r_cap
              /\ r_nodes'[r].r_cap >= 0
        /\ pc' = "done" => \A n \in DOMAIN nodes : nodes'[n].r_cap = 0]_vars

\* The call has returned, every node is filled, one resource was drawn from
\* and keeps a remainder.
C14_Witness ==
    /\ call = "power"
    /\ pc = "done"
    /\ AllFilled
    /\ \E r \in DOMAIN r_nodes :
          r_nodes[r].r_cap > 0 /\ r_nodes[r].r_cap < r_nodes[r].capacity

\* C15 (Nearest available resource): the candidates of a pass are exactly
\* the resources with remaining capacity > 0 when the pass starts, and the
\* nodes looked at exactly those with remaining demand > 0 then; every pair
\* applied in the pass joins such a node with such a resource, at minimal
\* distance from the node among all candidates of the pass; a resource
\* exhausted in an earlier pass is no candidate.
C15_NearestAvailable ==
    [][call = "power" =>
        /\ pass' = pass + 1 =>
              /\ \A r \in DOMAIN r_nodes :
                    r_nodes[r].r_cap > 0 <=>
                        \E q \in DOMAIN r_index' : r_index'[q] = r_nodes[r].site_id
              /\ \A n \in DOMAIN nodes :
                    nodes[n].r_cap > 0 <=> \E q \in DOMAIN n_index' : n_index'[q] = n
              /\ \A q \in DOMAIN r_left' : r_left'[q] = r_nodes[Loc(r_nodes, r_index'[q])]
              /\ \A q \in DOMAIN nodes_left' : nodes_left'[q] = nodes[n_index'[q]]
        /\ (pc = "apply" /\ k' = k + 1) =>
              LET q_r == node_pairs[k + 1][1] + 1
                  q_n == node_pairs[k + 1][2] + 1
                  node == nodes'[NextNode]
              IN /\ nodes_left[q_n].r_cap > 0
                 /\ r_left[q_r].r_cap > 0
                 /\ nodes[NextNode] = nodes_left[q_n]
                 /\ r_nodes[NextRow] = r_left[q_r]
                 /\ node.site_id[Len(node.site_id)] = r_left[q_r].site_id
                 /\ \A o \in DOMAIN r_left :
                       Dist2(nodes_left[q_n], r_left[q_r]) <= Dist2(nodes_left[q_n], r_left[o])]_vars

\* In a later pass a node was given a resource although an exhausted one is
\* strictly nearer to it.
C15_Witness ==
    /\ call = "power"
    /\ pc = "apply"
    /\ pass >= 2
    /\ k >= 1
    /\ r_left # <<>>
    /\ \E r \in DOMAIN r_nodes :
          /\ \A q \in DOMAIN r_index : r_index[q] # r_nodes[r].site_id
          /\ Dist2(nodes_left[node_pairs[k][2] + 1], r_nodes[r])
                < Dist2(nodes_left[node_pairs[k][2] + 1], r_left[node_pairs[k][1] + 1])

\* Total resource capacity equals total node demand.
ExactFit == call = "power" /\ TotalCapacity = TotalDemand

AllExhausted == call = "power" /\ \A r \in DOMAIN r_nodes : r_nodes[r].r_cap = 0

\* C16 (Exact-fit success): when total capacity equals total demand the
\* call never fails and eventually returns with every node's remaining
\* demand and every resource's remaining capacity at 0; the pass that fills
\* the last node ends the loop, so no pass is ever started on an empty set
\* of resources with remaining capacity.
C16_ExactFit ==
    /\ [](ExactFit => /\ pc # "error"
                      /\ pass >= 1 => r_left # <<>>
                      /\ pc = "start" => ~AllExhausted
                      /\ pc = "done" => (AllFilled /\ AllExhausted))
    /\ (ExactFit ~> (pc = "done" /\ AllFilled /\ AllExhausted))

\* An exact fit over two resources has returned after more than one pass.
C16_Witness ==
    /\ ExactFit
    /\ pc = "done"
    /\ pass >= 2
    /\ Len(r_nodes) = 2
    /\ AllFilled
    /\ AllExhausted

\* The first row (node-table order) among the nominators of i at least
\* distance: the winner the tie-break names.
FirstNearestNominator(i) ==
    CHOOSE m \in Nominators(i) :
        /\ \A o \in Nominators(i) : dist[m + 1] <= dist[o + 1]
        /\ \A o \in Nominators(i) : dist[o + 1] = dist[m + 1] => m <= o

\* C17 (Tie-break in conflict resolution): when several remaining nodes
\* nominate one resource at equal least distance, the one that comes first
\* in node-table order draws in that pass; n_index keeps table order, and
\* the pairs of a pass are fixed by the query's answer (pos, dist): one pair
\* per nominated resource, in ascending position, each with that first
\* nearest nominator, so only the query's choice among equally near
\* resources is left open.
C17_TieBreak ==
    (call = "power" /\ pass >= 1 /\ r_left # <<>> /\ pc # "error") =>
        /\ \A a, b \in DOMAIN n_index : a < b => n_index[a] < n_index[b]
        /\ \A q \in DOMAIN node_pairs :
              /\ node_pairs[q][2] = FirstNearestNominator(node_pairs[q][1])
              /\ \A o \in DOMAIN node_pairs : q < o => node_pairs[q][1] < node_pairs[o][1]
        /\ {node_pairs[q][1] : q \in DOMAIN node_pairs} = {pos[j] : j \in DOMAIN pos}
        /\ \A j \in DOMAIN pos : dist[j] = Dist2(nodes_left[j], r_left[pos[j] + 1])
        /\ \A i \in {pos[j] : j \in DOMAIN pos} :
              \A m \in Drew(i) :
                  \A o \in Nominators(i) :
                      dist[o + 1] = dist[m + 1] => n_index[m + 1] <= n_index[o + 1]

\* Two nodes nominated one resource at the same distance and the one that
\* comes first in the table has drawn; the other has not.
C17_Witness ==
    /\ call = "power"
    /\ pc = "apply"
    /\ r_left # <<>>
    /\ \E i \in {pos[j] : j \in DOMAIN pos} :
          \E m \in Drew(i) :
              \E o \in Nominators(i) \ Drew(i) :
                  /\ dist[o + 1] = dist[m + 1]
                  /\ m < o
                  /\ nodes_left[m + 1].r_cap # nodes_left[o + 1].r_cap

\* C18 (No repeated pair): in every state of nearest_power_nodes no
\* resource identifier occurs twice in a node's site_id list: a node and a
\* resource are paired at most once in a run.
C18_NoRepeatedPair ==
    call = "power" =>
        \A n \in DOMAIN nodes :
            \A d, e \in DOMAIN nodes[n].site_id :
                nodes[n].site_id[d] = nodes[n].site_id[e] => d = e

\* A node was filled from two resources in two passes.
C18_Witness ==
    /\ call = "power"
    /\ pass >= 2
    /\ \E n \in DOMAIN nodes :
          /\ Len(nodes[n].site_id) = 2
          /\ nodes[n].site_id[1] # nodes[n].site_id[2]
          /\ nodes[n].r_cap = 0

\* Every site_id list that names the resource site names it in nodes2 too,
\* as often: no assignment to site was added between nodes1 and nodes2.
NoNewAssignment(site, nodes1, nodes2) ==
    \A n \in DOMAIN nodes1 :
        Cardinality({e \in DOMAIN nodes2[n].site_id : nodes2[n].site_id[e] = site})
            = Cardinality({e \in DOMAIN nodes1[n].site_id : nodes1[n].site_id[e] = site})

\* C19 (Finality): once a node's remaining demand is 0 no later step changes
\* its site_id / site_fracs lists (or its remaining demand); once a
\* resource's remaining capacity is 0 no later step assigns it to any node
\* (or changes its remaining capacity); a step only assigns a resource that
\* had capacity left.
C19_Finality ==
    [][call = "power" =>
        /\ \A n \in DOMAIN nodes :
              nodes[n].r_cap = 0 => nodes'[n] = nodes[n]
        /\ \A r \in DOMAIN r_nodes :
              /\ r_nodes[r].r_cap = 0 =>
                    /\ r_nodes'[r] = r_nodes[r]
                    /\ NoNewAssignment(r_nodes[r].site_id, nodes, nodes')
              /\ ~NoNewAssignment(r_nodes[r].site_id, nodes, nodes') => r_nodes[r].r_cap > 0]_vars

\* In a later pass a pair was applied while another node, filled in an
\* earlier pass, and a resource exhausted earlier stay as they were.
C19_Witness ==
    /\ call = "power"
    /\ pc = "apply"
    /\ pass >= 2
    /\ k >= 1
    /\ r_left # <<>>
    /\ \E n \in DOMAIN nodes :
          /\ nodes[n].r_cap = 0
          /\ nodes[n].site_id # <<>>
          /\ \A q \in DOMAIN n_index : n_index[q] # n
    /\ \E r \in DOMAIN r_nodes :
          /\ r_nodes[r].r_cap = 0
          /\ \A q \in DOMAIN r_index : r_index[q] # r_nodes[r].site_id

\* C20 (Positive bounded draws): with positive demands and capacities every
\* entry of a node's site_fracs stands for an amount > 0 and at most the
\* resource's total capacity: the fraction is in (0, 1] and is taken of the
\* total capacity of the resource named beside it.
C20_PositiveDraws ==
    call = "power" =>
        \A n \in DOMAIN nodes :
            \A e \in DOMAIN nodes[n].site_fracs :
                LET f == nodes[n].site_fracs[e]
                    capacity == r_nodes[Loc(r_nodes, nodes[n].site_id[e])].capacity
                IN /\ f.den > 0
                   /\ f.num > 0
                   /\ f.num <= f.den
                   /\ (f.num * capacity) % f.den = 0
                   /\ (f.num * capacity) \div f.den > 0
                   /\ (f.num * capacity) \div f.den <= capacity

\* Some node holds a whole resource (fraction 1) and a part of another.
C20_Witness ==
    /\ call = "power"
    /\ \E n \in DOMAIN nodes :
          \E d, e \in DOMAIN nodes[n].site_fracs :
              /\ RatEq(nodes[n].site_fracs[d], Int2Rat(1))
              /\ ~RatEq(nodes[n].site_fracs[e], Int2Rat(1))

====
